---- MODULE Spec2Model ----
(***************************************************************************)
(* Model of the flight search proxy of src/index.js: the token exchange,   *)
(* the ISO duration parser, the offer-to-option mapping, the local ranking *)
(* and the /api/search route.  The file holds two versions of the server   *)
(* (lines 1-93 and lines 94-218); a request is served by one of them.      *)
(***************************************************************************)
EXTENDS Integers, Sequences, FiniteSets, TLC

(***************************************************************************)
(* Bounds of the model.                                                    *)
(***************************************************************************)
MaxLen == 6
MaxOffers == 2
MaxErrors == 2
NumReq == 2

VARIABLES
  iso, minutes,
  pc, version, q, token, issued, tokenCalls, tokenResp,
  fetchCalls, fetchAuth, fetchParams, res, mapped, response

durVars == <<iso, minutes>>
reqVars == <<pc, version, q, token, issued, tokenCalls, tokenResp,
             fetchCalls, fetchAuth, fetchParams, res, mapped, response>>
vars == <<iso, minutes, pc, version, q, token, issued, tokenCalls, tokenResp,
          fetchCalls, fetchAuth, fetchParams, res, mapped, response>>

(***************************************************************************)
(* Text.  A text that the code parses or concatenates is a sequence of     *)
(* characters; Undefined is the JavaScript value undefined where a text    *)
(* field is missing.                                                       *)
(***************************************************************************)
Undefined == <<"undefined">>

String(v) ==
  IF v = Undefined THEN <<"u", "n", "d", "e", "f", "i", "n", "e", "d">> ELSE v

Digit == {"0", "1", "2", "3", "4", "5", "6", "7", "8", "9"}

DigitVal(c) ==
  CASE c = "0" -> 0 [] c = "1" -> 1 [] c = "2" -> 2 [] c = "3" -> 3
    [] c = "4" -> 4 [] c = "5" -> 5 [] c = "6" -> 6 [] c = "7" -> 7
    [] c = "8" -> 8 [] c = "9" -> 9

\* parseInt(d, 10) of a text of decimal digits.
RECURSIVE parseInt(_)
parseInt(d) ==
  IF d = <<>> THEN 0
  ELSE 10 * parseInt(SubSeq(d, 1, Len(d) - 1)) + DigitVal(d[Len(d)])

\* Whether text part occurs in text s as a contiguous run.
Contains(s, part) ==
  \E i \in 1..(Len(s) - Len(part) + 1) : SubSeq(s, i, i + Len(part) - 1) = part

(***************************************************************************)
(* parseISODurationToMinutes: the unanchored pattern                       *)
(*   /PT(?:(\d+)H)?(?:(\d+)M)?/                                            *)
(* matches at the first "PT" of the text; each group captures a run of     *)
(* digits only when the letter follows the run.                            *)
(***************************************************************************)
\* Position of the first "PT" of s, 0 when there is none (match is null).
FirstPT(s) ==
  LET at == {i \in 1..(Len(s) - 1) : s[i] = "P" /\ s[i + 1] = "T"}
  IN  IF at = {} THEN 0 ELSE CHOOSE i \in at : \A j \in at : i <= j

\* First position at or after i of s that holds no digit.
RECURSIVE DigitsEnd(_, _)
DigitsEnd(s, i) ==
  IF i <= Len(s) /\ s[i] \in Digit THEN DigitsEnd(s, i + 1) ELSE i

\* The optional group (?:(\d+)<letter>)? tried at position i.
Group(s, i, letter) ==
  LET j == DigitsEnd(s, i)
  IN  IF j > i /\ j <= Len(s) /\ s[j] = letter
      THEN [captured |-> SubSeq(s, i, j - 1), next |-> j + 1]
      ELSE [captured |-> <<>>, next |-> i]

parseHoursAsMinutes(v) ==
  LET s == String(v)
      p == FirstPT(s)
      gh == Group(s, p + 2, "H")
      gm == Group(s, gh.next, "M")
      h == IF p # 0 /\ gh.captured # <<>> THEN parseInt(gh.captured) ELSE 0
      min == IF p # 0 /\ gm.captured # <<>> THEN parseInt(gm.captured) ELSE 0
  IN  h + min

parseISODurationToMinutes(v) ==
  LET s == String(v)
      p == FirstPT(s)
      gh == Group(s, p + 2, "H")
      gm == Group(s, gh.next, "M")
      h == IF p # 0 /\ gh.captured # <<>> THEN parseInt(gh.captured) ELSE 0
      min == IF p # 0 /\ gm.captured # <<>> THEN parseInt(gm.captured) ELSE 0
  IN  h * 60 + min

(***************************************************************************)
(* The upstream offer-search payload.  An offer carries an id (the empty   *)
(* text when it has none), a price object and a list of itineraries, each  *)
(* with an ISO duration and a list of segments.                            *)
(***************************************************************************)
Seg(dep, arr, carrier, number, dur) ==
  [departure |-> [iataCode |-> dep, at |-> <<"0", "8", ":", "0", "0">>],
   arrival |-> [iataCode |-> arr, at |-> <<"1", "1", ":", "3", "0">>],
   carrierCode |-> carrier, number |-> number, duration |-> dur]

Seg1 == Seg("JFK", "ORD", <<"A", "A">>, <<"1", "0">>, <<"P", "T", "2", "H">>)
Seg2 == Seg("ORD", "LAX", <<"U", "A">>, <<"7">>, <<"P", "T", "4", "5", "M">>)
Seg3 == Seg("LAX", "SFO", <<"D", "L">>, <<"3">>, Undefined)

Offer(id, total, itineraries) ==
  [id |-> id, price |-> [total |-> total, currency |-> "USD"],
   itineraries |-> itineraries]

Itin(dur, segments) == [duration |-> dur, segments |-> segments]

PT1H == <<"P", "T", "1", "H">>
PT30M == <<"P", "T", "3", "0", "M">>
PT1H30M == <<"P", "T", "1", "H", "3", "0", "M">>

\* The offers the upstream answers with: three prices (1, 1.5 and 2 units of
\* currency) by three itinerary durations (60 min, 30 min and none given), with
\* and without an id, with zero to three segments and one or two itineraries.
OfferPool ==
  { Offer(<<"A">>, <<"1">>, <<Itin(PT1H, <<Seg1>>)>>),
    Offer(<<>>, <<"1">>, <<Itin(PT30M, <<Seg1, Seg2>>)>>),
    Offer(<<"B">>, <<"1">>, <<Itin(Undefined, <<>>)>>),
    Offer(<<"C">>, <<"1", ".", "5">>, <<Itin(PT1H, <<Seg1, Seg2, Seg3>>)>>),
    Offer(<<>>, <<"1", ".", "5">>, <<Itin(PT30M, <<Seg2>>)>>),
    Offer(<<"D">>, <<"1", ".", "5">>,
          <<Itin(Undefined, <<Seg2>>), Itin(PT1H, <<Seg1>>)>>),
    Offer(<<>>, <<"2">>, <<Itin(PT1H, <<>>)>>),
    Offer(<<"E">>, <<"2">>, <<Itin(PT30M, <<Seg1>>), Itin(PT1H30M, <<Seg2>>)>>),
    Offer(<<"A">>, <<"2">>, <<Itin(PT1H30M, <<Seg3>>)>>) }

\* Sequences over S of length at most n.
SeqUpTo(S, n) == UNION {[1..k -> S] : k \in 0..n}

(***************************************************************************)
(* Conversions of the mapping stage.                                       *)
(***************************************************************************)
\* parseFloat of a decimal numeral with at most one fractional digit; prices
\* are kept as whole tenths of a unit of currency.
parseFloat(total) ==
  LET dot == DigitsEnd(total, 1)
      int == parseInt(SubSeq(total, 1, dot - 1))
      frac == IF dot < Len(total) /\ total[dot] = "." /\ total[dot + 1] \in Digit
              THEN DigitVal(total[dot + 1]) ELSE 0
  IN  10 * int + frac

DigitChar(n) == CHOOSE c \in Digit : DigitVal(c) = n

\* The decimal text of a natural number, as a template literal writes it.
RECURSIVE NatText(_)
NatText(n) ==
  IF n < 10 THEN <<DigitChar(n)>> ELSE NatText(n \div 10) \o <<DigitChar(n % 10)>>

Max(a, b) == IF a >= b THEN a ELSE b

mapSegment(seg) ==
  [from |-> seg.departure.iataCode,
   to |-> seg.arrival.iataCode,
   depart |-> seg.departure.at,
   arrive |-> seg.arrival.at,
   airline |-> seg.carrierCode,
   flightNo |-> seg.carrierCode \o seg.number,
   durationMin |-> parseISODurationToMinutes(seg.duration)]

transfersUnclamped(legs) == Len(legs) - 1

\* Math.max(0, legs.length - 1)
transfers(legs) == Max(0, Len(legs) - 1)

\* The option of the offer at zero-based position idx of the data list.
mapOffer(offer, idx) ==
  LET itin == offer.itineraries[1]
      legs == [k \in 1..Len(itin.segments) |-> mapSegment(itin.segments[k])]
  IN  [id |-> IF offer.id # <<>> THEN offer.id
              ELSE <<"a", "m", "-">> \o NatText(idx),
       provider |-> "AMADEUS",
       price |-> parseFloat(offer.price.total),
       currency |-> offer.price.currency,
       legs |-> legs,
       totalDurationMin |-> parseISODurationToMinutes(itin.duration),
       transfers |-> transfers(legs),
       notes |-> <<>>]

mapOffersWithId(data) ==
  LET HasId(offer) == offer.id # <<>>
      kept == SelectSeq(data, HasId)
  IN  [i \in 1..Len(kept) |-> mapOffer(kept[i], i - 1)]

mapOffers(data) == [i \in 1..Len(data) |-> mapOffer(data[i], i - 1)]

(***************************************************************************)
(* The local sort.  Array.prototype.sort is stable: an element goes after  *)
(* every element that does not compare greater than it.  An entry pairs an *)
(* option with the number its comparator subtracts.                        *)
(***************************************************************************)
RECURSIVE insertUnstable(_, _)
insertUnstable(sorted, x) ==
  IF sorted = <<>> THEN <<x>>
  ELSE IF x.key - Head(sorted).key <= 0 THEN <<x>> \o sorted
  ELSE <<Head(sorted)>> \o insertUnstable(Tail(sorted), x)

RECURSIVE insert(_, _)
insert(sorted, x) ==
  IF sorted = <<>> THEN <<x>>
  ELSE IF x.key - Head(sorted).key < 0 THEN <<x>> \o sorted
  ELSE <<Head(sorted)>> \o insert(Tail(sorted), x)

RECURSIVE sort(_)
sort(entries) ==
  IF entries = <<>> THEN <<>>
  ELSE insert(sort(SubSeq(entries, 1, Len(entries) - 1)), entries[Len(entries)])

Values(entries) == [i \in 1..Len(entries) |-> entries[i].value]

sortShortest(list) ==
  Values(sort([i \in 1..Len(list) |->
                 [key |-> list[i].totalDurationMin, value |-> list[i]]]))

sortCheapest(list) ==
  Values(sort([i \in 1..Len(list) |-> [key |-> list[i].price, value |-> list[i]]]))

SetMin(S) == CHOOSE x \in S : \A y \in S : x <= y
SetMax(S) == CHOOSE x \in S : \A y \in S : x >= y

Prices(list) == {list[i].price : i \in 1..Len(list)}
Durations(list) == {list[i].totalDurationMin : i \in 1..Len(list)}

\* Math.max(1, maxP - minP), in tenths, and Math.max(1, maxT - minT).
priceSpread(list) == Max(10, SetMax(Prices(list)) - SetMin(Prices(list)))
durationSpread(list) == Max(1, SetMax(Durations(list)) - SetMin(Durations(list)))

\* m._score = 0.5 * pN + 0.5 * tN, kept exactly as its numerator over the
\* denominator 2 * priceSpread * durationSpread that all options of the list share.
score(m, list) ==
  (m.price - SetMin(Prices(list))) * durationSpread(list)
    + (m.totalDurationMin - SetMin(Durations(list))) * priceSpread(list)

withScore(m, list) == m @@ ("_score" :> score(m, list))

deleteScore(m) == [f \in DOMAIN m \ {"_score"} |-> m[f]]

sortBalanced(list) ==
  LET scored == [i \in 1..Len(list) |-> withScore(list[i], list)]
      sorted == Values(sort([i \in 1..Len(scored) |->
                  [key |-> scored[i]["_score"], value |-> scored[i]]]))
  IN  [i \in 1..Len(sorted) |-> deleteScore(sorted[i])]

\* const optimize = q.optimize || 'balanced', then the three branches.
localSort(list, optimize) ==
  IF optimize = "shortest" THEN sortShortest(list)
  ELSE IF optimize = "cheapest" THEN sortCheapest(list)
  ELSE sortBalanced(list)

(***************************************************************************)
(* Upstream error payloads and the message the pipeline builds from them.  *)
(***************************************************************************)
Truthy(text) == text # Undefined /\ text # <<>>

ErrorEntry(detail, title, code) == [detail |-> detail, title |-> title, code |-> code]

ErrorPool ==
  { ErrorEntry(<<"b", "a", "d">>, <<"D", "A", "T", "E">>, 4),
    ErrorEntry(Undefined, <<"G", "O", "N", "E">>, 1),
    ErrorEntry(<<>>, <<"F", "U", "L", "L">>, 2),
    ErrorEntry(Undefined, Undefined, 7) }

\* JSON.stringify(e): the fields the entry has, in order.
stringify(e) ==
  <<"{">>
    \o (IF e.detail # Undefined THEN <<"detail:">> \o e.detail \o <<",">> ELSE <<>>)
    \o (IF e.title # Undefined THEN <<"title:">> \o e.title \o <<",">> ELSE <<>>)
    \o <<"code:">> \o NatText(e.code) \o <<"}">>

\* e.detail || e.title || JSON.stringify(e)
errorText(e) ==
  IF Truthy(e.detail) THEN e.detail
  ELSE IF Truthy(e.title) THEN e.title
  ELSE stringify(e)

RECURSIVE join(_)
join(texts) ==
  IF texts = <<>> THEN <<>>
  ELSE IF Len(texts) = 1 THEN texts[1]
  ELSE texts[1] \o <<" ", "|", " ">> \o join(Tail(texts))

errorTexts(errors) == [i \in 1..Len(errors) |-> errorText(errors[i])]

\* `Amadeus error: ${msg}`
errorMessage(errors) == <<"Amadeus error: ">> \o join(errorTexts(errors))

\* A parsed body of the offer-search answer: the errors field (when it has
\* one) and the data field, which is a list ("list"), absent ("absent"), or
\* a value that is no list ("object", here an object that holds an offer).
Body(hasErrors, errors, dataKind, data) ==
  [hasErrors |-> hasErrors, errors |-> errors, dataKind |-> dataKind, data |-> data]

NoBody == Body(FALSE, <<>>, "none", <<>>)

DataLists == SeqUpTo(OfferPool, MaxOffers)

ErrorLists == SeqUpTo(ErrorPool, MaxErrors) \ {<<>>}

OneOffer == <<Offer(<<"A">>, <<"1">>, <<Itin(PT1H, <<Seg1>>)>>)>>

Bodies ==
  {Body(h, <<>>, "list", d) : h \in BOOLEAN, d \in DataLists}
    \cup {Body(h, <<>>, "absent", <<>>) : h \in BOOLEAN}
    \cup {Body(h, <<>>, "object", OneOffer) : h \in BOOLEAN}
    \cup {Body(TRUE, e, "list", d) : e \in ErrorLists, d \in {<<>>, OneOffer}}
    \cup {Body(TRUE, e, "absent", <<>>) : e \in ErrorLists}

\* res.errors?.length
hasErrorList(body) == body.hasErrors /\ Len(body.errors) > 0

dataOfAny(body) == body.data

\* Array.isArray(res.data) ? res.data : []
dataOf(body) == IF body.dataKind = "list" THEN body.data ELSE <<>>

(***************************************************************************)
(* The query of a request.  Absent is a field the body does not have.      *)
(***************************************************************************)
Absent == "<absent>"

Falsy(x) == x = Absent \/ x = ""

Query(from, to, start, end, pax, optimize) ==
  [from |-> from, to |-> to, start |-> start, end |-> end, pax |-> pax,
   optimize |-> optimize]

NoQuery == Query(Absent, Absent, Absent, Absent, 0, Absent)

\* Whether new Date(text) is a date (not an Invalid Date), and its day.
validDate(text) == text \in {"2024-06-01", "2024-06-08T10:30"}

dateOf(text) ==
  CASE text = "2024-06-01" -> <<2024, 6, 1>>
    [] text = "2024-06-08T10:30" -> <<2024, 6, 8>>

TwoDigits(n) == IF n < 10 THEN <<"0">> \o NatText(n) ELSE NatText(n)

\* format(new Date(text), 'yyyy-MM-dd')
format(text) ==
  LET d == dateOf(text)
  IN  NatText(d[1]) \o <<"-">> \o TwoDigits(d[2]) \o <<"-">> \o TwoDigits(d[3])

\* The query parameters of the first version (lines 36-44): with a sort.
params1(query) ==
  [originLocationCode |-> query.from,
   destinationLocationCode |-> query.to,
   departureDate |-> format(query.start),
   adults |-> NatText(IF query.pax # 0 THEN query.pax ELSE 1),
   currencyCode |-> "USD",
   max |-> "30",
   sort |-> IF query.optimize = "shortest" THEN "DURATION" ELSE "PRICE",
   returnDate |-> <<>>]

\* The query parameters of the second version (lines 132-141): no sort, and a
\* return date when the query has an end.
params2(query) ==
  [originLocationCode |-> query.from,
   destinationLocationCode |-> query.to,
   departureDate |-> format(query.start),
   adults |-> NatText(IF query.pax # 0 THEN query.pax ELSE 1),
   currencyCode |-> "USD",
   max |-> "30",
   sort |-> Absent,
   returnDate |-> IF Falsy(query.end) THEN <<>> ELSE format(query.end)]

NoParams == <<>>

\* Whether building the parameters throws (format of an Invalid Date).
paramsThrow(v, query) ==
  \/ ~validDate(query.start)
  \/ v = 2 /\ ~Falsy(query.end) /\ ~validDate(query.end)

(***************************************************************************)
(* The pipeline after the offer fetch has answered with a parsed body:     *)
(* what searchAmadeus returns or throws.                                   *)
(***************************************************************************)
Returned(options, pre) == [threw |-> FALSE, options |-> options, mapped |-> pre]

Thrown(message) == [threw |-> TRUE, message |-> message, mapped |-> <<>>]

\* First version, lines 50-73: map and return, in the order received.
searchAmadeus1(query, body) ==
  LET pre == mapOffers(dataOf(body))
  IN  Returned(pre, pre)

\* Second version, lines 148-197: surface errors, map, sort locally.
searchAmadeus2(query, body) ==
  IF hasErrorList(body) THEN Thrown(errorMessage(body.errors))
  ELSE LET pre == mapOffers(dataOf(body))
           optimize == IF Falsy(query.optimize) THEN "balanced" ELSE query.optimize
       IN  Returned(localSort(pre, optimize), pre)

searchAmadeus(v, query, body) ==
  IF v = 1 THEN searchAmadeus1(query, body) ELSE searchAmadeus2(query, body)

(***************************************************************************)
(* The responses of the route.                                             *)
(***************************************************************************)
NoResponse == [status |-> 0]

BadRequest ==
  [status |-> 400, ok |-> FALSE, error |-> <<"from, to, start are required">>]

\* res.status(500).json({ ok: false, error: e.message || 'Server error' })
ServerError(message) ==
  [status |-> 500, ok |-> FALSE,
   error |-> IF message = <<>> THEN <<"Server error">> ELSE message]

Ok(options) == [status |-> 200, ok |-> TRUE, options |-> options]

missingFromOrTo(query) == Falsy(query.from) \/ Falsy(query.to)

\* if (!q.from || !q.to || !q.start)
missingRequired(query) == Falsy(query.from) \/ Falsy(query.to) \/ Falsy(query.start)

\* The messages of the errors that ky and date-fns throw.
HTTPError == <<"Request failed with status code">>
RangeError == <<"Invalid time value">>

bearerCached(r, tk) == IF issued # <<>> THEN 1 ELSE tk

\* The Authorization header of the offer fetch carries the local const token.
bearer(r, tk) == tk

UndefinedToken == 0

Requests == 1..NumReq

TypeOK ==
  /\ pc \in [Requests -> {"idle", "token", "offers", "done"}]
  /\ version \in [Requests -> {0, 1, 2}]
  /\ tokenCalls \in [Requests -> Nat]
  /\ fetchCalls \in [Requests -> Nat]
  /\ tokenResp \in [Requests -> {"none", "failed", "noField", "token"}]

InitReq ==
  /\ pc = [r \in Requests |-> "idle"]
  /\ version = [r \in Requests |-> 0]
  /\ q = [r \in Requests |-> NoQuery]
  /\ token = [r \in Requests |-> UndefinedToken]
  /\ issued = <<>>
  /\ tokenCalls = [r \in Requests |-> 0]
  /\ tokenResp = [r \in Requests |-> "none"]
  /\ fetchCalls = [r \in Requests |-> 0]
  /\ fetchAuth = [r \in Requests |-> UndefinedToken]
  /\ fetchParams = [r \in Requests |-> NoParams]
  /\ res = [r \in Requests |-> NoBody]
  /\ mapped = [r \in Requests |-> <<>>]
  /\ response = [r \in Requests |-> NoResponse]

\* app.post('/api/search'): request r arrives at version v of the server with
\* the given body; it is rejected, or searchAmadeus starts and getAccessToken
\* posts the credential exchange.
Receive(r, v, body) ==
  /\ pc[r] = "idle"
  /\ version' = [version EXCEPT ![r] = v]
  /\ q' = [q EXCEPT ![r] = body]
  /\ IF missingRequired(body)
     THEN /\ response' = [response EXCEPT ![r] = BadRequest]
          /\ pc' = [pc EXCEPT ![r] = "done"]
          /\ UNCHANGED tokenCalls
     ELSE /\ tokenCalls' = [tokenCalls EXCEPT ![r] = @ + 1]
          /\ pc' = [pc EXCEPT ![r] = "token"]
          /\ UNCHANGED response
  /\ UNCHANGED <<token, issued, tokenResp, fetchCalls, fetchAuth, fetchParams,
                 res, mapped>>
  /\ UNCHANGED durVars

\* The credential exchange of request r ends with a non-success status: ky
\* throws, searchAmadeus rejects and the route answers 500.
TokenFails(r) ==
  /\ pc[r] = "token"
  /\ tokenResp' = [tokenResp EXCEPT ![r] = "failed"]
  /\ response' = [response EXCEPT ![r] = ServerError(HTTPError)]
  /\ pc' = [pc EXCEPT ![r] = "done"]
  /\ UNCHANGED <<version, q, token, issued, tokenCalls, fetchCalls, fetchAuth,
                 fetchParams, res, mapped>>
  /\ UNCHANGED durVars

\* The credential exchange of request r answers with a body; getAccessToken
\* returns its access_token field (undefined when hasToken is false), the
\* parameters are built and the offer fetch is sent.
TokenReturns(r, hasToken) ==
  /\ pc[r] = "token"
  /\ LET tk == IF hasToken THEN Len(issued) + 1 ELSE UndefinedToken
     IN  /\ issued' = IF hasToken THEN Append(issued, r) ELSE issued
         /\ tokenResp' = [tokenResp EXCEPT ![r] = IF hasToken THEN "token" ELSE "noField"]
         /\ token' = [token EXCEPT ![r] = tk]
         /\ IF paramsThrow(version[r], q[r])
            THEN /\ response' = [response EXCEPT ![r] = ServerError(RangeError)]
                 /\ pc' = [pc EXCEPT ![r] = "done"]
                 /\ UNCHANGED <<fetchCalls, fetchAuth, fetchParams>>
            ELSE /\ fetchCalls' = [fetchCalls EXCEPT ![r] = @ + 1]
                 /\ fetchAuth' = [fetchAuth EXCEPT ![r] = bearer(r, tk)]
                 /\ fetchParams' = [fetchParams EXCEPT ![r] =
                                      IF version[r] = 1 THEN params1(q[r])
                                      ELSE params2(q[r])]
                 /\ pc' = [pc EXCEPT ![r] = "offers"]
                 /\ UNCHANGED response
  /\ UNCHANGED <<version, q, tokenCalls, res, mapped>>
  /\ UNCHANGED durVars

\* The offer fetch of request r ends with a non-success status: ky throws.
OffersFail(r) ==
  /\ pc[r] = "offers"
  /\ response' = [response EXCEPT ![r] = ServerError(HTTPError)]
  /\ pc' = [pc EXCEPT ![r] = "done"]
  /\ UNCHANGED <<version, q, token, issued, tokenCalls, tokenResp, fetchCalls,
                 fetchAuth, fetchParams, res, mapped>>
  /\ UNCHANGED durVars

\* The offer fetch of request r answers with a parsed body: the rest of
\* searchAmadeus runs and the route answers.
OffersReturn(r, body) ==
  /\ pc[r] = "offers"
  /\ LET out == searchAmadeus(version[r], q[r], body)
     IN  /\ res' = [res EXCEPT ![r] = body]
         /\ mapped' = [mapped EXCEPT ![r] = out.mapped]
         /\ response' = [response EXCEPT ![r] =
                           IF out.threw THEN ServerError(out.message)
                           ELSE Ok(out.options)]
  /\ pc' = [pc EXCEPT ![r] = "done"]
  /\ UNCHANGED <<version, q, token, issued, tokenCalls, tokenResp, fetchCalls,
                 fetchAuth, fetchParams>>
  /\ UNCHANGED durVars

(***************************************************************************)
(* Spec: one request, with every query and every upstream answer of the    *)
(* pools.                                                                  *)
(***************************************************************************)
Queries ==
  {Query(f, t, s, e, p, o) :
     f \in {Absent, "", "JFK"}, t \in {Absent, "", "LAX"},
     s \in {Absent, "", "2024-06-01", "soon"},
     e \in {Absent, "2024-06-08T10:30", "later"},
     p \in {0, 2},
     o \in {Absent, "cheapest", "shortest", "balanced", "fastest"}}

Init ==
  /\ InitReq
  /\ iso = Undefined
  /\ minutes = 0

Next ==
  \/ \E v \in {1, 2}, body \in Queries : Receive(1, v, body)
  \/ TokenFails(1)
  \/ \E hasToken \in BOOLEAN : TokenReturns(1, hasToken)
  \/ OffersFail(1)
  \/ \E body \in Bodies : OffersReturn(1, body)

Spec == Init /\ [][Next]_vars

(***************************************************************************)
(* SpecConc: NumReq requests in flight at once, with a few queries and     *)
(* upstream answers each.                                                  *)
(***************************************************************************)
ConcQueries ==
  { Query("JFK", "LAX", "2024-06-01", Absent, 0, "cheapest"),
    Query("JFK", Absent, "2024-06-01", Absent, 0, Absent),
    Query("JFK", "LAX", "soon", Absent, 2, "shortest") }

ConcBodies ==
  { Body(FALSE, <<>>, "list", OneOffer),
    Body(TRUE, <<ErrorEntry(<<"b", "a", "d">>, Undefined, 4)>>, "absent", <<>>) }

NextConc ==
  \E r \in Requests :
    \/ \E v \in {1, 2}, body \in ConcQueries : Receive(r, v, body)
    \/ TokenFails(r)
    \/ \E hasToken \in BOOLEAN : TokenReturns(r, hasToken)
    \/ OffersFail(r)
    \/ \E body \in ConcBodies : OffersReturn(r, body)

SpecConc == Init /\ [][NextConc]_vars

(***************************************************************************)
(* SpecDur: parseISODurationToMinutes applied to every text of at most     *)
(* MaxLen characters over DurChars, to the texts of the documentation and  *)
(* to a missing value.                                                     *)
(***************************************************************************)
DurChars == {"P", "T", "H", "M", "2", "x"}

PT2H30M == <<"P", "T", "2", "H", "3", "0", "M">>
PT45M == <<"P", "T", "4", "5", "M">>
PT3H == <<"P", "T", "3", "H">>
Garbage == <<"g", "a", "r", "b", "a", "g", "e">>

DurInputs ==
  SeqUpTo(DurChars, MaxLen)
    \cup { Undefined, PT2H30M, PT45M, PT3H, Garbage,
           <<"P", "T", "2", "H", "3", "0", "M", "1", "5", "S">>,
           <<"P", "1", "D", "T", "2", "H">>,
           <<"P", "T", "1", ".", "5", "H">>,
           <<"P", "T", "0", "9", "M">> }

InitDur ==
  /\ InitReq
  /\ iso \in DurInputs
  /\ minutes = -1

ParseDuration ==
  /\ minutes = -1
  /\ minutes' = parseISODurationToMinutes(iso)
  /\ UNCHANGED iso
  /\ UNCHANGED reqVars

NextDur == ParseDuration

SpecDur == InitDur /\ [][NextDur]_vars

(***************************************************************************)
(* Properties.                                                             *)
(***************************************************************************)
Done(r) == pc[r] = "done"

\* Request r received a parsed body from the offer-search endpoint.
Answered(r) == Done(r) /\ res[r] # NoBody

Served(r) == Done(r) /\ response[r].status = 200

\* Twice the combined score of option m of list, times both denominators.
CombinedScore(m, list) ==
  LET minPrice == SetMin(Prices(list))
      maxPrice == SetMax(Prices(list))
      minDuration == SetMin(Durations(list))
      maxDuration == SetMax(Durations(list))
      dp == Max(10, maxPrice - minPrice)
      dt == Max(1, maxDuration - minDuration)
  IN  (m.price - minPrice) * dt + (m.totalDurationMin - minDuration) * dp

\* C1: when the offer-search answer carries a non-empty error list, the search
\* fails with a message that contains the text of every error entry (detail,
\* else title, else raw dump), maps no offer and returns no option list.
C1_ErrorsSurface ==
  \A r \in Requests :
    Answered(r) /\ res[r].hasErrors /\ res[r].errors # <<>> =>
      /\ response[r].status = 500
      /\ "options" \notin DOMAIN response[r]
      /\ mapped[r] = <<>>
      /\ \A i \in 1..Len(res[r].errors) :
           LET e == res[r].errors[i]
               text == IF Truthy(e.detail) THEN e.detail
                       ELSE IF Truthy(e.title) THEN e.title ELSE stringify(e)
           IN  Contains(response[r].error, text)

\* C2: the returned list is non-decreasing in price under "cheapest", in
\* totalDurationMin under "shortest", and in the combined score under
\* "balanced", no optimize or an unrecognized one; no returned option has the
\* score field.
C2_Ordered ==
  \A r \in Requests :
    Served(r) =>
      LET list == response[r].options
      IN  /\ q[r].optimize = "cheapest" =>
               \A i \in 1..(Len(list) - 1) : list[i].price <= list[i + 1].price
          /\ q[r].optimize = "shortest" =>
               \A i \in 1..(Len(list) - 1) :
                 list[i].totalDurationMin <= list[i + 1].totalDurationMin
          /\ q[r].optimize \notin {"cheapest", "shortest"} =>
               \A i \in 1..(Len(list) - 1) :
                 CombinedScore(list[i], list) <= CombinedScore(list[i + 1], list)
          /\ \A i \in 1..Len(list) : "_score" \notin DOMAIN list[i]

SamePrice(list) == \A i, j \in 1..Len(list) : list[i].price = list[j].price

\* C3 as stated: when all mapped options share one price, the order returned
\* under "balanced" and under "cheapest" is the mapping order.
C3_MappingOrderKept ==
  \A r \in Requests :
    Served(r) /\ SamePrice(mapped[r]) /\ q[r].optimize \in {"balanced", "cheapest"} =>
      response[r].options = mapped[r]

WithDuration(list, d) ==
  LET Is(m) == m.totalDurationMin = d
  IN  SelectSeq(list, Is)

\* C3 as amended: when all mapped options share one price, the order returned
\* under "cheapest" is the mapping order, and under "balanced" the options of
\* equal totalDurationMin are in their mapping order.
C3_TiesKeepMappingOrder ==
  \A r \in Requests :
    Served(r) /\ SamePrice(mapped[r]) =>
      /\ q[r].optimize = "cheapest" => response[r].options = mapped[r]
      /\ q[r].optimize = "balanced" =>
           \A d \in Durations(mapped[r]) :
             WithDuration(response[r].options, d) = WithDuration(mapped[r], d)

C3_Witness ==
  /\ Served(1) /\ version[1] = 2 /\ q[1].optimize = "balanced"
  /\ Len(mapped[1]) = 2 /\ SamePrice(mapped[1])
  /\ mapped[1][1].totalDurationMin > mapped[1][2].totalDurationMin
  /\ response[1].options = <<mapped[1][2], mapped[1][1]>>

\* C4: when the credential exchange ends with a non-success status or answers
\* without the access token field, the search fails, the exchange is not tried
\* again and the offer-search endpoint is never called for the request.
C4_AuthFailureStopsSearch ==
  \A r \in Requests :
    tokenResp[r] \in {"failed", "noField"} =>
      /\ Done(r) /\ response[r].status = 500
      /\ tokenCalls[r] = 1
      /\ fetchCalls[r] = 0

C4_Witness ==
  /\ tokenResp[1] = "noField" /\ pc[1] = "offers"
  /\ fetchCalls[1] = 1 /\ fetchAuth[1] = UndefinedToken

\* Whether text t is empty or a run of digits followed by the letter.
IsComponent(t, letter) ==
  \/ t = <<>>
  \/ /\ Len(t) >= 2
     /\ t[Len(t)] = letter
     /\ \A k \in 1..(Len(t) - 1) : t[k] \in Digit

ComponentValue(t) == IF t = <<>> THEN 0 ELSE parseInt(SubSeq(t, 1, Len(t) - 1))

\* The places where text s, read as PT<h>H<m>M, ends its hour component.
Splits(s) ==
  {k \in 2..Len(s) :
     /\ s[1] = "P" /\ s[2] = "T"
     /\ IsComponent(SubSeq(s, 3, k), "H")
     /\ IsComponent(SubSeq(s, k + 1, Len(s)), "M")}

WellFormed(s) == Splits(s) # {}

\* 60*h + m of a well-formed text.
Expected(s) ==
  LET k == CHOOSE k \in Splits(s) : TRUE
  IN  60 * ComponentValue(SubSeq(s, 3, k)) + ComponentValue(SubSeq(s, k + 1, Len(s)))

\* The longest text of the shape PT<h>H<m>M that starts at the first "PT" of s.
LongestShape(s) ==
  LET starts == {i \in 1..(Len(s) - 1) : SubSeq(s, i, i + 1) = <<"P", "T">>}
      p == CHOOSE i \in starts : \A j \in starts : i <= j
      ends == {n \in (p + 1)..Len(s) : WellFormed(SubSeq(s, p, n))}
      n == CHOOSE n \in ends : \A k \in ends : n >= k
  IN  SubSeq(s, p, n)

Parsed == minutes # -1

\* C5 as stated: a text of the shape PT<h>H<m>M, either component optional,
\* parses to 60*h + m; every other input, malformed or missing, parses to 0.
C5_MalformedGivesZero ==
  Parsed =>
    IF iso # Undefined /\ WellFormed(iso) THEN minutes = Expected(iso) ELSE minutes = 0

\* C5 as amended: a text of the shape PT<h>H<m>M, either component optional,
\* parses to 60*h + m (PT2H30M to 150, PT45M to 45, PT3H to 180); an input that
\* is missing or holds no "PT" parses to 0; any other input parses to 60*h + m
\* of the components that directly follow its first "PT"; every input parses
\* to a number of minutes that is not negative.
C5_ParsesShape ==
  Parsed =>
    /\ iso # Undefined /\ WellFormed(iso) => minutes = Expected(iso)
    /\ iso = PT2H30M => minutes = 150
    /\ iso = PT45M => minutes = 45
    /\ iso = PT3H => minutes = 180
    /\ iso = Undefined \/ ~Contains(iso, <<"P", "T">>) => minutes = 0
    /\ iso # Undefined /\ Contains(iso, <<"P", "T">>) =>
         minutes = Expected(LongestShape(iso))
    /\ minutes \in Nat

C5_Witness ==
  /\ Parsed
  /\ iso = <<"P", "T", "2", "H", "2", "M">>
  /\ minutes = 122

\* Whether option m is the option of offer o at zero-based position idx.
FromOffer(m, o, idx) ==
  /\ m.id = IF o.id # <<>> THEN o.id ELSE <<"a", "m", "-">> \o NatText(idx)
  /\ m.price = parseFloat(o.price.total)
  /\ m.currency = o.price.currency
  /\ Len(m.legs) = Len(o.itineraries[1].segments)
  /\ m.totalDurationMin = parseISODurationToMinutes(o.itineraries[1].duration)

\* C6: for a non-empty data list every offer gives exactly one option: the
\* mapped list is as long as the data list and, before sorting, its option at
\* position i is the option of the offer at position i.
C6_MappingTotal ==
  \A r \in Requests :
    Served(r) /\ res[r].dataKind = "list" /\ res[r].data # <<>> =>
      /\ Len(mapped[r]) = Len(res[r].data)
      /\ Len(response[r].options) = Len(res[r].data)
      /\ \A i \in 1..Len(res[r].data) :
           i <= Len(mapped[r]) /\ FromOffer(mapped[r][i], res[r].data[i], i - 1)

C6_Witness ==
  /\ Served(1) /\ Len(res[1].data) = 2
  /\ res[1].data[1].id # <<>> /\ res[1].data[2].id = <<>>
  /\ mapped[1][2].id = <<"a", "m", "-", "1">>
  /\ response[1].options # mapped[1]

\* C7 as stated: every returned option has transfers = legs.length - 1, and
\* transfers is never negative.
C7_TransfersIsLegsMinusOne ==
  \A r \in Requests :
    Served(r) =>
      \A i \in 1..Len(response[r].options) :
        LET m == response[r].options[i]
        IN  m.transfers = Len(m.legs) - 1 /\ m.transfers >= 0

\* C7 as amended: every returned option has transfers = legs.length - 1 when it
\* has at least one leg and transfers = 0 when it has none; transfers is never
\* negative.
C7_TransfersClamped ==
  \A r \in Requests :
    Served(r) =>
      \A i \in 1..Len(response[r].options) :
        LET m == response[r].options[i]
        IN  /\ Len(m.legs) >= 1 => m.transfers = Len(m.legs) - 1
            /\ Len(m.legs) = 0 => m.transfers = 0
            /\ m.transfers >= 0

C7_Witness ==
  /\ Served(1) /\ Len(response[1].options) = 2
  /\ \E i, j \in 1..2 :
       /\ Len(response[1].options[i].legs) = 0 /\ response[1].options[i].transfers = 0
       /\ Len(response[1].options[j].legs) = 3 /\ response[1].options[j].transfers = 2

\* C8: when the answer has no error list and its data field is absent or is
\* not a list, the search returns an empty option list and does not fail,
\* whatever optimize is.
C8_NoDataGivesEmpty ==
  \A r \in Requests :
    Answered(r) /\ ~(res[r].hasErrors /\ res[r].errors # <<>>)
                /\ res[r].dataKind \in {"absent", "object"} =>
      /\ response[r].status = 200 /\ response[r].ok
      /\ response[r].options = <<>>

C8_Witness ==
  /\ Answered(1) /\ res[1].dataKind = "object" /\ ~res[1].hasErrors
  /\ version[1] = 2 /\ q[1].optimize = "fastest"
  /\ response[1].status = 200 /\ response[1].options = <<>>

\* C9: a request whose from, to or start is missing or empty is answered with
\* a client error and performs neither the token exchange nor the offer
\* fetch; the pipeline is entered only with all three fields non-empty.
C9_ValidationFirst ==
  \A r \in Requests :
    pc[r] # "idle" =>
      LET Empty(x) == x \in {Absent, ""}
          missing == Empty(q[r].from) \/ Empty(q[r].to) \/ Empty(q[r].start)
      IN  /\ missing => /\ Done(r) /\ response[r].status = 400
                        /\ tokenCalls[r] = 0 /\ fetchCalls[r] = 0
          /\ tokenCalls[r] > 0 \/ fetchCalls[r] > 0 \/ pc[r] \in {"token", "offers"}
               => ~missing

C9_Witness ==
  /\ Done(1) /\ q[1].from = "JFK" /\ q[1].to = "LAX" /\ q[1].start = ""
  /\ response[1].status = 400 /\ tokenCalls[1] = 0 /\ fetchCalls[1] = 0

\* The tokens the upstream issued to the exchange of request r.
IssuedTo(r) == {k \in 1..Len(issued) : issued[k] = r}

\* C10: under every interleaving, a request that enters the pipeline performs
\* exactly one token exchange, its offer fetch starts only after its own
\* exchange has answered and carries the token that exchange returned, and no
\* request carries a token issued to another request.
C10_OwnFreshToken ==
  \A r \in Requests :
    /\ tokenCalls[r] <= 1
    /\ Cardinality(IssuedTo(r)) <= 1
    /\ pc[r] \in {"token", "offers"} \/ (Done(r) /\ response[r].status # 400)
         => tokenCalls[r] = 1
    /\ fetchCalls[r] > 0 =>
         /\ fetchCalls[r] = 1
         /\ tokenResp[r] \in {"token", "noField"}
         /\ fetchAuth[r] = token[r]
         /\ tokenResp[r] = "token" => fetchAuth[r] \in IssuedTo(r)
         /\ tokenResp[r] = "noField" => fetchAuth[r] = UndefinedToken

C10_Witness ==
  /\ pc[1] = "offers" /\ pc[2] = "done" /\ response[2].status = 200
  /\ fetchAuth[1] = 2 /\ fetchAuth[2] = 1
  /\ IssuedTo(1) = {2} /\ IssuedTo(2) = {1}

====
